---- MODULE Spec2Model ----
(***************************************************************************)
(* A model of the job pool of the agent (agent/task/pool.go): the pool,   *)
(* its workers, the job processor, the job store and the cancel flags,    *)
(* driven by concurrent callers of Submit, Cancel, Shutdown and           *)
(* ShutdownAndWait.                                                        *)
(*                                                                         *)
(* Every step that the code performs under one lock, or that touches one  *)
(* shared object once, is one action; the steps of one call are separate  *)
(* actions, so that calls interleave the way goroutines do.                *)
(***************************************************************************)
EXTENDS Integers, Sequences, FiniteSets, TLC

\* ------------------------------------------------------------------ bounds
\* maxParallel given to NewPool
NWorkers == 2
\* number of goroutines calling into the pool
NCallers == 2
\* number of Submit calls (one JobToken is created per call)
MaxJobs == 2
\* number of distinct job ids the callers use
NIds == 2
\* number of calls the callers make in all
MaxCalls == 4
\* maxParallel of the smallest pool
MinWorkers == 1
\* number of calls the callers make in the runs checked for liveness
LiveCalls == 3
Workers == 1..NWorkers
Callers == 1..NCallers
Tokens  == 1..MaxJobs
Ids     == 1..NIds

\* no token / no id
None == 0

VARIABLES
    jobStore,    \* JobStore: job id -> token, None when the id is absent
    jobQueue,    \* "open" or "closed": the unbuffered channel of JobToken
    isShutdown,  \* pool.isShutdown
    ntok,        \* number of JobTokens created so far (one per Submit call)
    tokId,       \* token -> JobToken.id
    flag,        \* token -> state of JobToken.cancelFlag
    life,        \* token -> where the token and its job body are
    wpc,         \* worker -> position in pool.start / worker / processor
    wtok,        \* worker -> the token it received, None when it has none
    caller,      \* caller -> the call it is in, NoCall when it is in none
    ret,         \* the call that returned in the last step, NoRet if none did
    early,       \* tokens for which Cancel returned true before the body began
    nWorkers,    \* pool.nWorkers
    budget,      \* number of calls the callers may still begin
    this,        \* Compare: the first version, a string of characters
    other,       \* Compare: the second version
    strictSort,  \* Compare: the strictSort argument
    cmpResult,   \* Compare: the int returned
    cpc,         \* "idle", "call" (before Compare) or "done" (after it)
    name,        \* ParseDocumentNameAndVersion: the argument
    docName,     \* ParseDocumentNameAndVersion: the name returned
    docVersion,  \* ParseDocumentNameAndVersion: the version returned
    npc,         \* "idle", "call" (before the call) or "done" (after it)
    docType,     \* InitializeDocState: "DocContent" or "SessionDocContent"
    docContent,  \* InitializeDocState: the document content (modified in
                 \* place by the parameter substitution)
    docInfo,     \* InitializeDocState: the DocumentInfo (DocumentID, ClientId)
    params,      \* InitializeDocState: what validating and resolving the
                 \* parameters comes to
    pluginsInfo, \* InitializeDocState: the PluginStates returned
    err,         \* InitializeDocState: the error returned
    dpc,         \* "idle", "call" (before the call) or "done" (after it)
    manifestCache,  \* package service: (PackageArn, Version) -> manifest file
    resource,       \* packageArchive: requested version -> manifest set
    byteManifest,   \* downloadManifest: what DownloadArchiveInfo returned
    parsedManifest, \* downloadManifest: the manifest returned, or nil
    isSameAsCache,  \* downloadManifest: the bool returned
    dmErr,          \* downloadManifest: the error returned
    downloads       \* number of DownloadManifest calls made

\* The state of the task pool.
poolVars == <<jobStore, jobQueue, isShutdown, ntok, tokId, flag, life,
              wpc, wtok, caller, ret, early, nWorkers, budget>>

\* The arguments and the result of a call of versionutil.Compare.
cmpVars == <<this, other, strictSort, cmpResult, cpc>>

\* The argument and the results of a call of ParseDocumentNameAndVersion.
nameVars == <<name, docName, docVersion, npc>>

\* The arguments and the results of a call of InitializeDocState.
docVars == <<docType, docContent, docInfo, params, pluginsInfo, err, dpc>>

\* The manifest cache, the package archive and the results of a call of
\* PackageService.DownloadManifest.
pkgVars == <<manifestCache, resource, byteManifest, parsedManifest,
             isSameAsCache, dmErr, downloads>>

\* What the steps of the task pool leave alone.
libVars == <<cmpVars, nameVars, docVars, pkgVars>>

vars == <<poolVars, libVars>>

\* ------------------------------------------------------------- cancel flag
\* States of a cancel flag.
Running  == "Running"
Canceled == "Canceled"
ShutDown == "ShutDown"

\* CancelFlag.Set: leaves Running for the given state, otherwise a no-op.
SetFlag(cur, state) == IF cur = Running THEN state ELSE cur

\* CancelFlag.Canceled: true iff the state is Canceled.
IsCanceled(cur) == cur = Canceled

\* --------------------------------------------------------------- job store
\* An AddJob that inserts without looking for an entry of the id.
AddJobBlind(store, id) == TRUE

\* JobStore.AddJob: insert if absent; the result tells whether it inserted.
AddJobOk(store, id) == store[id] = None
AddJob(store, id, t) == [store EXCEPT ![id] = t]

\* JobStore.GetJob
GetJob(store, id) == store[id]

\* JobStore.DeleteJob: idempotent.
DeleteJob(store, id) == [store EXCEPT ![id] = None]

\* JobStore.DeleteAllJobs: the snapshot, and the emptied store.
AllJobs(store) == {store[i] : i \in {j \in Ids : store[j] # None}}
EmptyStore == [i \in Ids |-> None]

\* ------------------------------------------------------------------ state
\* A caller that is in no call.
NoCall == [op |-> "none", pc |-> "idle", id |-> None, tok |-> None,
           snap |-> {}, wr |-> 0, tt |-> "none", et |-> "none",
           late |-> FALSE]

\* No call returned in the last step.
NoRet == [op |-> "none", id |-> None, tok |-> None, res |-> "none",
          late |-> FALSE]

\* The call of caller c returns r in this step (a panic that leaves the
\* call is recorded the same way, with res = "panic").
Returns(c, r) ==
    /\ ret' = [op |-> caller[c].op, id |-> caller[c].id,
               tok |-> caller[c].tok, res |-> r, late |-> caller[c].late]
    /\ caller' = [caller EXCEPT ![c] = NoCall]

\* NewPool(log, n, cancelWaitDuration, clock): an open queue, an empty store,
\* n workers receiving; the callers go on to make `calls` calls.
NewPool(n, calls) ==
    /\ nWorkers = n
    /\ budget = calls
    /\ jobStore = EmptyStore
    /\ jobQueue = "open"
    /\ isShutdown = FALSE
    /\ ntok = 0
    /\ tokId = [t \in Tokens |-> None]
    /\ flag = [t \in Tokens |-> Running]
    /\ life = [t \in Tokens |-> "none"]
    /\ wpc = [w \in Workers |-> IF w <= n THEN "recv" ELSE "absent"]
    /\ wtok = [w \in Workers |-> None]
    /\ caller = [c \in Callers |-> NoCall]
    /\ ret = NoRet
    /\ early = {}

\* No call of Compare is made.
CmpIdle ==
    /\ this = <<>>
    /\ other = <<>>
    /\ strictSort = FALSE
    /\ cmpResult = 0
    /\ cpc = "idle"

\* No call of ParseDocumentNameAndVersion is made.
NameIdle ==
    /\ name = <<>>
    /\ docName = <<>>
    /\ docVersion = <<>>
    /\ npc = "idle"

\* No call of InitializeDocState is made.
DocIdle ==
    /\ docType = "none"
    /\ docContent = [schemaVersion |-> <<>>, runtimeConfig |-> {},
                     mainSteps |-> <<>>]
    /\ docInfo = [DocumentID |-> "none", ClientId |-> "none"]
    /\ params = "valid"
    /\ pluginsInfo = <<>>
    /\ err = "nil"
    /\ dpc = "idle"

\* No call of DownloadManifest is made.
PkgIdle ==
    /\ manifestCache = <<>>
    /\ resource = <<>>
    /\ byteManifest = [none |-> TRUE]
    /\ parsedManifest = [nil |-> TRUE]
    /\ isSameAsCache = FALSE
    /\ dmErr = "nil"
    /\ downloads = 0

\* The library functions are not called while the pool runs.
LibIdle == CmpIdle /\ NameIdle /\ DocIdle /\ PkgIdle

Init == NewPool(NWorkers, MaxCalls) /\ LibIdle

\* A pool of one worker.
InitOne == NewPool(MinWorkers, MaxCalls) /\ LibIdle

\* Callers in no call are interchangeable, and so are workers at the same
\* position holding no token: the lowest-numbered one takes the step.
FirstIdle(c) ==
    /\ budget > 0
    /\ caller[c].pc = "idle"
    /\ \A d \in Callers : d < c => caller[d].pc # "idle"

FirstAt(w, p) ==
    /\ wpc[w] = p
    /\ \A v \in Workers : v < w => wpc[v] # p

\* The job body of t has not begun.
NotStarted(t) == life[t] \in {"queued", "received"}

\* ----------------------------------------------------------------- Submit
\* A Submit that does not look at the error of AddJob.
SubmitAddNoErrCheck(c, i) ==
    /\ FirstIdle(c)
    /\ ntok < MaxJobs
    /\ LET t == ntok + 1 IN
       /\ ntok' = t
       /\ tokId' = [tokId EXCEPT ![t] = i]
       /\ jobStore' = IF AddJobOk(jobStore, i) THEN AddJob(jobStore, i, t)
                      ELSE jobStore
       /\ life' = [life EXCEPT ![t] = "queued"]
       /\ caller' = [caller EXCEPT ![c] =
             [NoCall EXCEPT !.op = "Submit", !.pc = "send", !.id = i,
                            !.tok = t, !.late = isShutdown]]
       /\ ret' = NoRet
    /\ UNCHANGED <<jobQueue, isShutdown, flag, wpc, wtok, early, nWorkers,
                   libVars>>
    /\ budget' = budget - 1

\* A Submit on a buffered queue: it returns nil as soon as its token is in
\* JobStore, before any worker has received it.
SubmitAddBuffered(c, i) ==
    /\ FirstIdle(c)
    /\ ntok < MaxJobs
    /\ LET t == ntok + 1 IN
       /\ ntok' = t
       /\ tokId' = [tokId EXCEPT ![t] = i]
       /\ jobStore' = IF AddJobOk(jobStore, i) THEN AddJob(jobStore, i, t)
                      ELSE jobStore
       /\ life' = [life EXCEPT ![t] =
                      IF AddJobOk(jobStore, i) THEN "queued" ELSE "dup"]
       /\ caller' = caller
       /\ ret' = [op |-> "Submit", id |-> i, tok |-> t,
                  res |-> IF AddJobOk(jobStore, i) THEN "nil"
                          ELSE "DuplicateJob",
                  late |-> isShutdown]
    /\ UNCHANGED <<jobQueue, isShutdown, flag, wpc, wtok, early, nWorkers,
                   libVars>>
    /\ budget' = budget - 1

\* pool.Submit up to the send: the token is created and AddJob is tried;
\* a duplicate id returns the error, otherwise the caller goes on to send.
SubmitAdd(c, i) ==
    /\ FirstIdle(c)
    /\ ntok < MaxJobs
    /\ LET t == ntok + 1 IN
       /\ ntok' = t
       /\ tokId' = [tokId EXCEPT ![t] = i]
       /\ IF AddJobOk(jobStore, i)
          THEN /\ jobStore' = AddJob(jobStore, i, t)
               /\ life' = [life EXCEPT ![t] = "queued"]
               /\ caller' = [caller EXCEPT ![c] =
                     [NoCall EXCEPT !.op = "Submit", !.pc = "send", !.id = i,
                                    !.tok = t, !.late = isShutdown]]
               /\ ret' = NoRet
          ELSE /\ jobStore' = jobStore
               /\ life' = [life EXCEPT ![t] = "dup"]
               /\ caller' = caller
               /\ ret' = [op |-> "Submit", id |-> i, tok |-> t,
                          res |-> "DuplicateJob", late |-> isShutdown]
    /\ UNCHANGED <<jobQueue, isShutdown, flag, wpc, wtok, early, nWorkers,
                   libVars>>
    /\ budget' = budget - 1

\* The send of pool.Submit on a closed queue: the send panics.
SubmitSendClosed(c) ==
    /\ caller[c].pc = "send"
    /\ jobQueue = "closed"
    /\ life' = [life EXCEPT ![caller[c].tok] = "sendpanic"]
    /\ Returns(c, "panic")
    /\ UNCHANGED <<jobStore, jobQueue, isShutdown, ntok, tokId, flag,
                   wpc, wtok, early,
                   nWorkers, budget,
                   libVars>>

\* ----------------------------------------------------------------- worker
\* The send of pool.Submit meets the receive of a worker (for token :=
\* range queue): the worker holds the token and Submit returns nil.
WorkerReceive(w, c) ==
    /\ FirstAt(w, "recv")
    /\ caller[c].pc = "send"
    /\ jobQueue = "open"
    /\ wtok' = [wtok EXCEPT ![w] = caller[c].tok]
    /\ wpc' = [wpc EXCEPT ![w] = "check"]
    /\ life' = [life EXCEPT ![caller[c].tok] = "received"]
    /\ Returns(c, "nil")
    /\ UNCHANGED <<jobStore, jobQueue, isShutdown, ntok, tokId, flag, early,
                   nWorkers, budget,
                   libVars>>

\* worker: the test of the token's flag; a canceled token is discarded.
WorkerCheck(w) ==
    /\ wpc[w] = "check"
    /\ IF ~IsCanceled(flag[wtok[w]])
       THEN /\ wpc' = [wpc EXCEPT ![w] = "start"]
            /\ UNCHANGED <<wtok, life>>
       ELSE /\ wpc' = [wpc EXCEPT ![w] = "recv"]
            /\ wtok' = [wtok EXCEPT ![w] = None]
            /\ life' = [life EXCEPT ![wtok[w]] = "discarded"]
    /\ ret' = NoRet
    /\ UNCHANGED <<jobStore, jobQueue, isShutdown, ntok, tokId, flag,
                   caller, early,
                   nWorkers, budget,
                   libVars>>

\* worker: the range loop ends on the closed queue; the worker goes on to
\* pool.workerDone.
WorkerExitLoop(w) ==
    /\ FirstAt(w, "recv")
    /\ jobQueue = "closed"
    /\ wpc' = [wpc EXCEPT ![w] = "done"]
    /\ ret' = NoRet
    /\ UNCHANGED <<jobStore, jobQueue, isShutdown, ntok, tokId, flag,
                   life, wtok, caller, early,
                   nWorkers, budget,
                   libVars>>

\* -------------------------------------------------------------- processor
\* A worker that starts the processor without waiting for it.
ProcessorStartAsync(w) ==
    /\ wpc[w] = "start"
    /\ life' = [life EXCEPT ![wtok[w]] = "running"]
    /\ wpc' = [wpc EXCEPT ![w] = "recv"]
    /\ wtok' = [wtok EXCEPT ![w] = None]
    /\ ret' = NoRet
    /\ UNCHANGED <<jobStore, jobQueue, isShutdown, ntok, tokId, flag,
                   caller, early, nWorkers, budget,
                   libVars>>

\* processor calls process, which starts the job body.
ProcessorStart(w) ==
    /\ wpc[w] = "start"
    /\ life' = [life EXCEPT ![wtok[w]] = "running"]
    /\ wpc' = [wpc EXCEPT ![w] = "wait"]
    /\ ret' = NoRet
    /\ UNCHANGED <<jobStore, jobQueue, isShutdown, ntok, tokId, flag,
                   wtok, caller, early,
                   nWorkers, budget,
                   libVars>>

\* The job body returns.
JobReturn(t) ==
    /\ life[t] \in {"running", "abandoned"}
    /\ life' = [life EXCEPT ![t] = "returned"]
    /\ ret' = NoRet
    /\ UNCHANGED <<jobStore, jobQueue, isShutdown, ntok, tokId, flag,
                   wpc, wtok, caller, early,
                   nWorkers, budget,
                   libVars>>

\* The job body panics.
JobPanic(t) ==
    /\ life[t] \in {"running", "abandoned"}
    /\ life' = [life EXCEPT ![t] = "panicked"]
    /\ ret' = NoRet
    /\ UNCHANGED <<jobStore, jobQueue, isShutdown, ntok, tokId, flag,
                   wpc, wtok, caller, early,
                   nWorkers, budget,
                   libVars>>

\* A processor through which the panic of a job body reaches the worker,
\* which leaves its loop.
ProcessorExitPanicEndsWorker(w) ==
    /\ jobStore' = DeleteJob(jobStore, tokId[wtok[w]])
    /\ wpc' = [wpc EXCEPT ![w] =
                  IF life[wtok[w]] = "panicked" THEN "done" ELSE "recv"]
    /\ wtok' = [wtok EXCEPT ![w] = None]
    /\ ret' = NoRet
    /\ UNCHANGED <<jobQueue, isShutdown, ntok, tokId, flag, caller, early,
                   nWorkers, budget,
                   libVars>>

\* A processor whose exit leaves the job in JobStore.
ProcessorExitNoDelete(w) ==
    /\ wpc' = [wpc EXCEPT ![w] = "recv"]
    /\ wtok' = [wtok EXCEPT ![w] = None]
    /\ ret' = NoRet
    /\ UNCHANGED <<jobStore, jobQueue, isShutdown, ntok, tokId, flag, caller,
                   early, nWorkers, budget,
                   libVars>>

\* The processor leaves: the deferred DeleteJob(j.id) runs and the worker
\* is back at its receive.
ProcessorExit(w) ==
    /\ jobStore' = DeleteJob(jobStore, tokId[wtok[w]])
    /\ wpc' = [wpc EXCEPT ![w] = "recv"]
    /\ wtok' = [wtok EXCEPT ![w] = None]
    /\ ret' = NoRet
    /\ UNCHANGED <<jobQueue, isShutdown, ntok, tokId, flag, caller, early,
                   nWorkers, budget,
                   libVars>>

\* process sees the job body done (returned or panicked), before or after
\* a cancellation.
ProcessorDone(w) ==
    /\ wpc[w] \in {"wait", "cancelwait"}
    /\ life[wtok[w]] \in {"returned", "panicked"}
    /\ life' = life
    /\ ProcessorExit(w)

\* process sees the flag leave Running and starts the cancelWait timer.
ProcessorCancelSeen(w) ==
    /\ wpc[w] = "wait"
    /\ flag[wtok[w]] # Running
    /\ wpc' = [wpc EXCEPT ![w] = "cancelwait"]
    /\ ret' = NoRet
    /\ UNCHANGED <<jobStore, jobQueue, isShutdown, ntok, tokId, flag,
                   life, wtok, caller, early,
                   nWorkers, budget,
                   libVars>>

\* A process that, after the flag has left Running, goes on waiting until
\* the job body has ended.
ProcessorAbandonWhenDone(w) ==
    /\ wpc[w] = "cancelwait"
    /\ life[wtok[w]] \in {"returned", "panicked"}
    /\ life' = life
    /\ ProcessorExit(w)

\* The cancelWait timer fires first: process stops waiting; a job body
\* that is still running is abandoned.
ProcessorAbandon(w) ==
    /\ wpc[w] = "cancelwait"
    /\ life' = [life EXCEPT ![wtok[w]] =
                   IF @ = "running" THEN "abandoned" ELSE @]
    /\ ProcessorExit(w)

\* ----------------------------------------------------------------- Cancel
\* pool.Cancel, GetJob: an absent id returns false.
CancelGet(c, i) ==
    /\ FirstIdle(c)
    /\ IF GetJob(jobStore, i) = None
       THEN /\ caller' = caller
            /\ ret' = [op |-> "Cancel", id |-> i, tok |-> None,
                       res |-> "false", late |-> FALSE]
       ELSE /\ caller' = [caller EXCEPT ![c] =
                [NoCall EXCEPT !.op = "Cancel", !.id = i, !.pc = "del",
                               !.tok = GetJob(jobStore, i)]]
            /\ ret' = NoRet
    /\ UNCHANGED <<jobStore, jobQueue, isShutdown, ntok, tokId, flag,
                   life, wpc, wtok, early, nWorkers,
                   libVars>>
    /\ budget' = budget - 1

\* A Cancel that leaves the token in JobStore.
CancelDeleteSkip(c) ==
    /\ caller[c].pc = "del"
    /\ caller' = [caller EXCEPT ![c].pc = "set"]
    /\ ret' = NoRet
    /\ UNCHANGED <<jobStore, jobQueue, isShutdown, ntok, tokId, flag, life,
                   wpc, wtok, early, nWorkers, budget,
                   libVars>>

\* pool.Cancel, DeleteJob(jobID).
CancelDelete(c) ==
    /\ caller[c].pc = "del"
    /\ jobStore' = DeleteJob(jobStore, caller[c].id)
    /\ caller' = [caller EXCEPT ![c].pc = "set"]
    /\ ret' = NoRet
    /\ UNCHANGED <<jobQueue, isShutdown, ntok, tokId, flag, life,
                   wpc, wtok, early,
                   nWorkers, budget,
                   libVars>>

\* A Cancel that writes Canceled into the flag whatever its state.
CancelSetOverwrite(c) ==
    /\ caller[c].pc = "set"
    /\ flag' = [flag EXCEPT ![caller[c].tok] = Canceled]
    /\ early' = IF NotStarted(caller[c].tok)
                THEN early \cup {caller[c].tok} ELSE early
    /\ Returns(c, "true")
    /\ UNCHANGED <<jobStore, jobQueue, isShutdown, ntok, tokId, life,
                   wpc, wtok, nWorkers, budget,
                   libVars>>

\* A Cancel that returns true without setting the flag.
CancelSetNoFlag(c) ==
    /\ caller[c].pc = "set"
    /\ early' = IF NotStarted(caller[c].tok)
                THEN early \cup {caller[c].tok} ELSE early
    /\ Returns(c, "true")
    /\ UNCHANGED <<jobStore, jobQueue, isShutdown, ntok, tokId, flag, life,
                   wpc, wtok, nWorkers, budget,
                   libVars>>

\* pool.Cancel, cancelFlag.Set(Canceled) and return true.
CancelSet(c) ==
    /\ caller[c].pc = "set"
    /\ flag' = [flag EXCEPT ![caller[c].tok] = SetFlag(@, Canceled)]
    /\ early' = IF NotStarted(caller[c].tok)
                THEN early \cup {caller[c].tok} ELSE early
    /\ Returns(c, "true")
    /\ UNCHANGED <<jobStore, jobQueue, isShutdown, ntok, tokId, life,
                   wpc, wtok,
                   nWorkers, budget,
                   libVars>>

\* --------------------------------------------------------------- Shutdown
\* Every worker goroutine of the pool has ended.
AllExited == \A w \in Workers : wpc[w] \in {"exited", "absent"}

\* pool.ShutDownAll, DeleteAllJobs: the store is drained into a local list.
\* op is "Shutdown" or "ShutdownAndWait" (which begins by calling Shutdown).
\* A ShutdownAndWait call is late if every worker had ended when it began.
ShutDownAllDrain(c, op) ==
    /\ FirstIdle(c)
    /\ caller' = [caller EXCEPT ![c] =
          [NoCall EXCEPT !.op = op, !.snap = AllJobs(jobStore),
                         !.late = (op = "ShutdownAndWait" /\ AllExited),
                         !.pc = IF AllJobs(jobStore) = {} THEN "close"
                                ELSE "setall"]]
    /\ jobStore' = EmptyStore
    /\ ret' = NoRet
    /\ UNCHANGED <<jobQueue, isShutdown, ntok, tokId, flag, life, wpc, wtok,
                   early, nWorkers,
                   libVars>>
    /\ budget' = budget - 1

\* pool.ShutDownAll, the loop: one token's flag is Set to ShutDown.
ShutDownAllSet(c, t) ==
    /\ caller[c].pc = "setall"
    /\ t \in caller[c].snap
    /\ flag' = [flag EXCEPT ![t] = SetFlag(@, ShutDown)]
    /\ caller' = [caller EXCEPT ![c].snap = @ \ {t},
                                ![c].pc = IF caller[c].snap = {t}
                                          THEN "close" ELSE "setall"]
    /\ ret' = NoRet
    /\ UNCHANGED <<jobStore, jobQueue, isShutdown, ntok, tokId, life,
                   wpc, wtok, early,
                   nWorkers, budget,
                   libVars>>

\* close(p.jobQueue): closing a closed channel panics.
CloseQueue(q) == IF q = "open" THEN "closed" ELSE "closepanic"

\* A Shutdown that closes the queue without testing isShutdown.
ShutdownCloseUnguarded(c) ==
    /\ caller[c].pc = "close"
    /\ jobQueue' = CloseQueue(jobQueue)
    /\ isShutdown' = TRUE
    /\ IF caller[c].op = "Shutdown"
       THEN Returns(c, IF jobQueue = "open" THEN "done" ELSE "panic")
       ELSE /\ caller' = [caller EXCEPT ![c].pc = "select",
                                        ![c].wr = nWorkers,
                                        ![c].tt = "pending",
                                        ![c].et = "pending"]
            /\ ret' = NoRet
    /\ UNCHANGED <<jobStore, ntok, tokId, flag, life, wpc, wtok, early,
                   nWorkers, budget,
                   libVars>>

\* pool.Shutdown, under p.mut: the queue is closed unless isShutdown.
\* Shutdown returns; in ShutdownAndWait the two timers are created and
\* workersRunning is set.
ShutdownClose(c) ==
    /\ caller[c].pc = "close"
    /\ jobQueue' = IF ~isShutdown THEN CloseQueue(jobQueue) ELSE jobQueue
    /\ isShutdown' = TRUE
    /\ IF caller[c].op = "Shutdown"
       THEN Returns(c, "done")
       ELSE /\ caller' = [caller EXCEPT ![c].pc = "select",
                                        ![c].wr = nWorkers,
                                        ![c].tt = "pending",
                                        ![c].et = "pending"]
            /\ ret' = NoRet
    /\ UNCHANGED <<jobStore, ntok, tokId, flag, life, wpc, wtok, early,
                   nWorkers, budget,
                   libVars>>

\* -------------------------------------------------------- ShutdownAndWait
\* clock.After(timeout) becomes ready.
TimeoutTimerFire(c) ==
    /\ caller[c].tt = "pending"
    /\ caller' = [caller EXCEPT ![c].tt = "ready"]
    /\ ret' = NoRet
    /\ UNCHANGED <<jobStore, jobQueue, isShutdown, ntok, tokId, flag,
                   life, wpc, wtok, early,
                   nWorkers, budget,
                   libVars>>

\* clock.After(timeout + cancelDuration) becomes ready, not before the
\* timeout timer (cancelDuration >= 0).
ExitTimerFire(c) ==
    /\ caller[c].et = "pending"
    /\ caller[c].tt # "pending"
    /\ caller' = [caller EXCEPT ![c].et = "ready"]
    /\ ret' = NoRet
    /\ UNCHANGED <<jobStore, jobQueue, isShutdown, ntok, tokId, flag,
                   life, wpc, wtok, early,
                   nWorkers, budget,
                   libVars>>

\* select, case <-p.doneWorker: the send of pool.workerDone of worker w is
\* received; the worker goroutine ends. The last worker makes the call
\* return true.
WaitWorkerDone(c, w) ==
    /\ caller[c].pc = "select"
    /\ FirstAt(w, "done")
    /\ wpc' = [wpc EXCEPT ![w] = "exited"]
    /\ IF caller[c].wr - 1 = 0
       THEN Returns(c, "true")
       ELSE /\ caller' = [caller EXCEPT ![c].wr = @ - 1]
            /\ ret' = NoRet
    /\ UNCHANGED <<jobStore, jobQueue, isShutdown, ntok, tokId, flag,
                   life, wtok, early,
                   nWorkers, budget,
                   libVars>>

\* select, case <-timeoutTimer: pool.CancelAll begins with DeleteAllJobs.
WaitTimeout(c) ==
    /\ caller[c].pc = "select"
    /\ caller[c].tt = "ready"
    /\ caller' = [caller EXCEPT ![c].tt = "taken",
                                ![c].snap = AllJobs(jobStore),
                                ![c].pc = IF AllJobs(jobStore) = {}
                                          THEN "select" ELSE "cancelall"]
    /\ jobStore' = EmptyStore
    /\ ret' = NoRet
    /\ UNCHANGED <<jobQueue, isShutdown, ntok, tokId, flag, life,
                   wpc, wtok, early,
                   nWorkers, budget,
                   libVars>>

\* pool.CancelAll, the loop: one token's flag is Set to Canceled.
CancelAllSet(c, t) ==
    /\ caller[c].pc = "cancelall"
    /\ t \in caller[c].snap
    /\ flag' = [flag EXCEPT ![t] = SetFlag(@, Canceled)]
    /\ caller' = [caller EXCEPT ![c].snap = @ \ {t},
                                ![c].pc = IF caller[c].snap = {t}
                                          THEN "select" ELSE "cancelall"]
    /\ ret' = NoRet
    /\ UNCHANGED <<jobStore, jobQueue, isShutdown, ntok, tokId, life,
                   wpc, wtok, early,
                   nWorkers, budget,
                   libVars>>

\* An exit timer case that goes round the loop instead of returning.
WaitExitNoReturn(c) ==
    /\ caller[c].pc = "select"
    /\ caller[c].et = "ready"
    /\ caller' = [caller EXCEPT ![c].et = "taken"]
    /\ ret' = NoRet
    /\ UNCHANGED <<jobStore, jobQueue, isShutdown, ntok, tokId, flag,
                   life, wpc, wtok, early, nWorkers, budget,
                   libVars>>

\* select, case <-exitTimer: the call returns false.
WaitExit(c) ==
    /\ caller[c].pc = "select"
    /\ caller[c].et = "ready"
    /\ Returns(c, "false")
    /\ UNCHANGED <<jobStore, jobQueue, isShutdown, ntok, tokId, flag,
                   life, wpc, wtok, early,
                   nWorkers, budget,
                   libVars>>

\* ------------------------------------------------------------------- Next
Next ==
    \/ \E c \in Callers, i \in Ids : SubmitAdd(c, i)
    \/ \E c \in Callers : SubmitSendClosed(c)
    \/ \E w \in Workers, c \in Callers : WorkerReceive(w, c)
    \/ \E w \in Workers : WorkerCheck(w)
    \/ \E w \in Workers : WorkerExitLoop(w)
    \/ \E w \in Workers : ProcessorStart(w)
    \/ \E t \in Tokens : JobReturn(t)
    \/ \E t \in Tokens : JobPanic(t)
    \/ \E w \in Workers : ProcessorDone(w)
    \/ \E w \in Workers : ProcessorCancelSeen(w)
    \/ \E w \in Workers : ProcessorAbandon(w)
    \/ \E c \in Callers, i \in Ids : CancelGet(c, i)
    \/ \E c \in Callers : CancelDelete(c)
    \/ \E c \in Callers : CancelSet(c)
    \/ \E c \in Callers : ShutDownAllDrain(c, "Shutdown")
    \/ \E c \in Callers : ShutDownAllDrain(c, "ShutdownAndWait")
    \/ \E c \in Callers, t \in Tokens : ShutDownAllSet(c, t)
    \/ \E c \in Callers : ShutdownClose(c)
    \/ \E c \in Callers : TimeoutTimerFire(c)
    \/ \E c \in Callers : ExitTimerFire(c)
    \/ \E c \in Callers, w \in Workers : WaitWorkerDone(c, w)
    \/ \E c \in Callers : WaitTimeout(c)
    \/ \E c \in Callers, t \in Tokens : CancelAllSet(c, t)
    \/ \E c \in Callers : WaitExit(c)

Spec == Init /\ [][Next]_vars

SpecOne == InitOne /\ [][Next]_vars

\* ---------------------------------------------------------------- fairness
\* The steps of worker goroutine w (the cancelWait timer of its processor
\* included).
WorkerStep(w) ==
    \/ \E c \in Callers : WorkerReceive(w, c)
    \/ WorkerCheck(w)
    \/ WorkerExitLoop(w)
    \/ ProcessorStart(w)
    \/ ProcessorDone(w)
    \/ ProcessorCancelSeen(w)
    \/ ProcessorAbandon(w)

\* The steps of caller c inside a call it has begun.
CallerStep(c) ==
    \/ SubmitSendClosed(c)
    \/ CancelDelete(c)
    \/ CancelSet(c)
    \/ \E t \in Tokens : ShutDownAllSet(c, t)
    \/ ShutdownClose(c)
    \/ \E w \in Workers : WaitWorkerDone(c, w)
    \/ WaitTimeout(c)
    \/ \E t \in Tokens : CancelAllSet(c, t)
    \/ WaitExit(c)

\* The Go scheduler runs every goroutine that can take a step, and the
\* clock makes every timer ready; a job body need not ever return, and
\* the callers need not begin another call.
Fairness ==
    /\ \A w \in Workers : WF_vars(WorkerStep(w))
    /\ \A c \in Callers : WF_vars(CallerStep(c))
    /\ \A c \in Callers : WF_vars(TimeoutTimerFire(c))
    /\ \A c \in Callers : WF_vars(ExitTimerFire(c))

InitLive == NewPool(NWorkers, LiveCalls) /\ LibIdle

FairSpec == InitLive /\ [][Next]_vars /\ Fairness

\* As FairSpec, with job bodies that all end.
FairJobsSpec ==
    /\ InitLive /\ [][Next]_vars /\ Fairness
    /\ \A t \in Tokens : WF_vars(JobReturn(t) \/ JobPanic(t))

\* ================================================================ strings
\* Strings are sequences of characters; the characters the versions and
\* the names below are written in, with their byte values.
Digits == {"0", "1", "2", "3"}
Chars == Digits \cup {"a", "A", ".", "-", ":", "/"}
Ord(ch) ==
    CASE ch = "-" -> 45 [] ch = "." -> 46 [] ch = "/" -> 47
      [] ch = "0" -> 48 [] ch = "1" -> 49 [] ch = "2" -> 50
      [] ch = "3" -> 51 [] ch = ":" -> 58 [] ch = "A" -> 65 [] ch = "a" -> 97

\* s < t on Go strings: bytewise, a proper prefix is less.
RECURSIVE StrLess(_, _)
StrLess(s, t) ==
    IF t = <<>> THEN FALSE
    ELSE IF s = <<>> THEN TRUE
    ELSE IF Head(s) # Head(t) THEN Ord(Head(s)) < Ord(Head(t))
    ELSE StrLess(Tail(s), Tail(t))

\* strings.Index(s, ch) + 1: the place of the first ch in s, 0 if none.
IndexOf(s, ch) ==
    IF \E i \in 1..Len(s) : s[i] = ch
    THEN CHOOSE i \in 1..Len(s) :
            s[i] = ch /\ \A j \in 1..(i - 1) : s[j] # ch
    ELSE 0

\* strings.Split(s, sep) for a separator of one character.
RECURSIVE Split(_, _)
Split(s, sep) ==
    IF IndexOf(s, sep) = 0 THEN <<s>>
    ELSE <<SubSeq(s, 1, IndexOf(s, sep) - 1)>>
         \o Split(SubSeq(s, IndexOf(s, sep) + 1, Len(s)), sep)

\* strconv.Atoi(s): the error result (an optional sign, then one or more
\* digits, is the only form accepted) and the value.
Unsigned(s) == IF s # <<>> /\ Head(s) \in {"+", "-"} THEN Tail(s) ELSE s
AtoiErr(s) ==
    Unsigned(s) = <<>> \/ \E i \in 1..Len(Unsigned(s)) : Unsigned(s)[i] \notin Digits
DigitVal(ch) ==
    CASE ch = "0" -> 0 [] ch = "1" -> 1 [] ch = "2" -> 2 [] ch = "3" -> 3
RECURSIVE DigitsVal(_)
DigitsVal(d) ==
    IF d = <<>> THEN 0
    ELSE DigitsVal(SubSeq(d, 1, Len(d) - 1)) * 10 + DigitVal(d[Len(d)])
Atoi(s) == IF Head(s) = "-" THEN 0 - DigitsVal(Unsigned(s))
           ELSE DigitsVal(Unsigned(s))

\* The sign of an int.
Sign(n) == IF n < 0 THEN 0 - 1 ELSE IF n > 0 THEN 1 ELSE 0

\* ================================================================= semver
\* semver.NewVersion: the text before the first "-" is MAJOR.MINOR.PATCH,
\* three integers; the text after it is the pre-release, dot separated
\* identifiers none of which is empty.
SemVerCore(s) ==
    IF IndexOf(s, "-") = 0 THEN s ELSE SubSeq(s, 1, IndexOf(s, "-") - 1)
SemVerPre(s) ==
    IF IndexOf(s, "-") = 0 THEN <<>>
    ELSE SubSeq(s, IndexOf(s, "-") + 1, Len(s))
SemVerOk(s) ==
    /\ Len(Split(SemVerCore(s), ".")) = 3
    /\ \A i \in 1..3 : ~AtoiErr(Split(SemVerCore(s), ".")[i])
    /\ \/ SemVerPre(s) = <<>>
       \/ \A i \in 1..Len(Split(SemVerPre(s), ".")) :
             Split(SemVerPre(s), ".")[i] # <<>>

\* semver: the pre-release identifiers compared one by one; a numeric
\* identifier is below a non-numeric one, fewer identifiers are below more.
RECURSIVE RecursivePreReleaseCompare(_, _)
RecursivePreReleaseCompare(A, B) ==
    IF A = <<>> THEN (IF B # <<>> THEN 0 - 1 ELSE 0)
    ELSE IF B = <<>> THEN 1
    ELSE LET a == Head(A)
             b == Head(B)
             aInt == ~AtoiErr(a)
             bInt == ~AtoiErr(b)
         IN IF aInt /\ ~bInt THEN 0 - 1
            ELSE IF ~aInt /\ bInt THEN 1
            ELSE IF aInt /\ bInt /\ Atoi(a) > Atoi(b) THEN 1
            ELSE IF aInt /\ bInt /\ Atoi(a) < Atoi(b) THEN 0 - 1
            ELSE IF StrLess(b, a) THEN 1
            ELSE IF StrLess(a, b) THEN 0 - 1
            ELSE RecursivePreReleaseCompare(Tail(A), Tail(B))

\* semver: a version without pre-release is above the same version with one.
PreReleaseCompare(a, b) ==
    IF a = <<>> /\ b # <<>> THEN 1
    ELSE IF b = <<>> /\ a # <<>> THEN 0 - 1
    ELSE RecursivePreReleaseCompare(Split(a, "."), Split(b, "."))

\* semver Version.Compare: major, minor, patch, then the pre-release.
RECURSIVE SemVerCoreCompare(_, _, _)
SemVerCoreCompare(A, B, i) ==
    IF i > 3 THEN 0
    ELSE IF Atoi(A[i]) > Atoi(B[i]) THEN 1
    ELSE IF Atoi(A[i]) < Atoi(B[i]) THEN 0 - 1
    ELSE SemVerCoreCompare(A, B, i + 1)
SemVerCompare(a, b) ==
    IF SemVerCoreCompare(Split(SemVerCore(a), "."),
                         Split(SemVerCore(b), "."), 1) # 0
    THEN SemVerCoreCompare(Split(SemVerCore(a), "."),
                           Split(SemVerCore(b), "."), 1)
    ELSE PreReleaseCompare(SemVerPre(a), SemVerPre(b))

\* ============================================================ versionutil
\* normalizeForCompare, the loop from index i down with lenSignificant = n.
RECURSIVE SignificantLen(_, _, _)
SignificantLen(version, i, n) ==
    IF i < 1 THEN n
    ELSE IF version[i] # "0" /\ version[i] # "." THEN n
    ELSE SignificantLen(version, i - 1,
                        IF i = 1 THEN 0
                        ELSE IF version[i] = "." THEN i - 1 ELSE n)

\* normalizeForCompare: the version without its trailing zeros and dots,
\* cut at a dot.
normalizeForCompare(version) ==
    IF Len(version) = 0 THEN version
    ELSE SubSeq(version, 1,
                SignificantLen(version, Len(version), Len(version)))

\* Compare, the loop over the aligned components from index i, and the
\* return after it.
RECURSIVE CompareComponents(_, _, _)
CompareComponents(thisComponents, otherComponents, i) ==
    IF i > Len(thisComponents) \/ i > Len(otherComponents)
    THEN Len(thisComponents) - Len(otherComponents)
    ELSE IF ~AtoiErr(thisComponents[i]) /\ ~AtoiErr(otherComponents[i])
    THEN IF Atoi(thisComponents[i]) < Atoi(otherComponents[i]) THEN 0 - 1
         ELSE IF Atoi(thisComponents[i]) > Atoi(otherComponents[i]) THEN 1
         ELSE CompareComponents(thisComponents, otherComponents, i + 1)
    ELSE IF StrLess(thisComponents[i], otherComponents[i]) THEN 0 - 1
         ELSE IF StrLess(otherComponents[i], thisComponents[i]) THEN 1
         ELSE CompareComponents(thisComponents, otherComponents, i + 1)

\* Compare, the version as it is split: normalized unless strictSort.
ForCompare(version, strict) ==
    IF ~strict THEN normalizeForCompare(version) ELSE version

\* A Compare that normalizes only its first argument.
CompareNormalizeThis(a, b, strict) ==
    IF SemVerOk(a) /\ SemVerOk(b) THEN SemVerCompare(a, b)
    ELSE CompareComponents(Split(ForCompare(a, strict), "."),
                           Split(b, "."), 1)

\* A Compare that returns the sign of what the component loop returns.
CompareSign(a, b, strict) ==
    IF SemVerOk(a) /\ SemVerOk(b) THEN SemVerCompare(a, b)
    ELSE Sign(CompareComponents(Split(ForCompare(a, strict), "."),
                                Split(ForCompare(b, strict), "."), 1))

\* versionutil.Compare(this, other, strictSort).
Compare(a, b, strict) ==
    IF SemVerOk(a) /\ SemVerOk(b) THEN SemVerCompare(a, b)
    ELSE CompareComponents(Split(ForCompare(a, strict), "."),
                           Split(ForCompare(b, strict), "."), 1)

\* The versions Compare is called with: up to MaxComponents components
\* joined by dots, and the four-component versions of ExtraVersions.
MaxComponents == 3
Components == {<<"0">>, <<"1">>, <<"1", "0">>, <<"a">>, <<"A">>,
               <<"0", "-", "a">>, <<>>}
RECURSIVE JoinDots(_)
JoinDots(cs) ==
    IF Len(cs) = 1 THEN cs[1] ELSE cs[1] \o <<".">> \o JoinDots(Tail(cs))
V1 == <<"1">>
V1000 == <<"1", ".", "0", ".", "0", ".", "0">>
ExtraVersions == {V1000, <<"1", ".", "0", ".", "0", ".", "1">>}
VersionInputs ==
    {JoinDots(cs) : cs \in UNION {[1..n -> Components] : n \in 1..MaxComponents}}
    \cup ExtraVersions

\* A call of Compare is about to be made with arguments from VersionInputs.
CompareInit ==
    /\ NewPool(NWorkers, MaxCalls)
    /\ NameIdle
    /\ DocIdle
    /\ PkgIdle
    /\ this \in VersionInputs
    /\ other \in VersionInputs
    /\ strictSort \in BOOLEAN
    /\ cmpResult = 0
    /\ cpc = "call"

\* The call of Compare.
CallCompare ==
    /\ cpc = "call"
    /\ cmpResult' = Compare(this, other, strictSort)
    /\ cpc' = "done"
    /\ UNCHANGED <<poolVars, nameVars, docVars, pkgVars, this, other,
                   strictSort>>

CompareSpec == CompareInit /\ [][CallCompare]_vars

\* ============================================================== docparser
\* filepath.Base(path) with the separator "/": trailing separators are
\* stripped, then the text after the last separator is taken.
RECURSIVE StripSlashes(_)
StripSlashes(path) ==
    IF path # <<>> /\ path[Len(path)] = "/"
    THEN StripSlashes(SubSeq(path, 1, Len(path) - 1)) ELSE path
LastSlash(path) ==
    IF \E i \in 1..Len(path) : path[i] = "/"
    THEN CHOOSE i \in 1..Len(path) :
            path[i] = "/" /\ \A j \in (i + 1)..Len(path) : path[j] # "/"
    ELSE 0
Base(path) ==
    IF path = <<>> THEN <<".">>
    ELSE IF StripSlashes(path) = <<>> THEN <<"/">>
    ELSE SubSeq(StripSlashes(path), LastSlash(StripSlashes(path)) + 1,
                Len(StripSlashes(path)))

\* strings.TrimSuffix(s, suffix)
TrimSuffix(s, suffix) ==
    IF Len(s) >= Len(suffix)
       /\ SubSeq(s, Len(s) - Len(suffix) + 1, Len(s)) = suffix
    THEN SubSeq(s, 1, Len(s) - Len(suffix)) ELSE s

\* ParseDocumentNameAndVersion(name): docVersion, the second of the parts
\* of the base name split at ":", empty if there is one part only.
ParsedVersion(n) ==
    IF Len(n) = 0 THEN <<>>
    ELSE IF Len(Split(Base(n), ":")) > 1 THEN Split(Base(n), ":")[2]
    ELSE <<>>

\* ParseDocumentNameAndVersion(name): docName, the name without the suffix
\* ":" + docVersion.
ParsedName(n) ==
    IF Len(n) = 0 THEN <<>>
    ELSE TrimSuffix(n, <<":">> \o ParsedVersion(n))

\* The names and versions ParseDocumentNameAndVersion is called with: names
\* of up to MaxNameLen characters, bare or followed by ":" and a version of
\* up to MaxVersionLen digits.
MaxNameLen == 3
MaxVersionLen == 2
NameChars == {"a", ":", "/"}
VersionChars == {"1", "2"}
Names == UNION {[1..n -> NameChars] : n \in 0..MaxNameLen}
DocVersions == UNION {[1..n -> VersionChars] : n \in 0..MaxVersionLen}
WithVersion(n, v) == n \o <<":">> \o v
NameInputs == Names \cup {WithVersion(n, v) : n \in Names, v \in DocVersions}

\* A call of ParseDocumentNameAndVersion is about to be made.
NameInit ==
    /\ NewPool(NWorkers, MaxCalls)
    /\ CmpIdle
    /\ DocIdle
    /\ PkgIdle
    /\ name \in NameInputs
    /\ docName = <<>>
    /\ docVersion = <<>>
    /\ npc = "call"

\* The call of ParseDocumentNameAndVersion.
CallParseDocumentNameAndVersion ==
    /\ npc = "call"
    /\ docName' = ParsedName(name)
    /\ docVersion' = ParsedVersion(name)
    /\ npc' = "done"
    /\ UNCHANGED <<poolVars, cmpVars, docVars, pkgVars, name>>

NameSpec == NameInit /\ [][CallParseDocumentNameAndVersion]_vars

\* ------------------------------------------------- docparser: documents
\* Schema versions, as strings.
V10 == <<"1", ".", "0">>
V12 == <<"1", ".", "2">>
V20 == <<"2", ".", "0">>
V201 == <<"2", ".", "0", ".", "1">>
V202 == <<"2", ".", "0", ".", "2">>
V203 == <<"2", ".", "0", ".", "3">>
V22 == <<"2", ".", "2">>
V21 == <<"2", ".", "1">>
V01 == <<"0", ".", "1">>

\* appconfig.SupportedDocumentVersions
SupportedDocumentVersions == {V10, V12, V20, V201, V202, V203, V22}

\* The schema versions of the v1.x and of the v2.x cases of
\* parseDocumentContent.
V1xVersions == {V10, V12}
V2xVersions == {V20, V201, V202, V203, V22}

\* preconditionSchemaVersion
preconditionSchemaVersion == V22

\* Error results.
Nil == "nil"
UnsupportedSchema == "UnsupportedSchema"
InvalidParameters == "InvalidParameters"
ResolveError == "ResolveError"
UnsupportedSchemaFormat == "Unsupported schema format"
UnsupportedDocument == "Unsupported document"

\* appconfig.PluginNameStandardStream
PluginNameStandardStream == "Standard_Stream"

\* validateSchema(documentSchemaVersion)
validateSchema(documentSchemaVersion) ==
    IF documentSchemaVersion \notin SupportedDocumentVersions
    THEN UnsupportedSchema ELSE Nil

\* parameters.ReplaceParameters on the inputs of a step: a reference to the
\* document parameter is replaced by its value.
ReplaceParameters(input) == IF input = "{{p}}" THEN "v" ELSE input

\* replaceValidatedPluginParameters at step `index` of mainSteps, the steps
\* before it being done: the step's inputs are replaced in place, then
\* parameterstore.Resolve fails (ps = "unresolved") or the loop goes on.
RECURSIVE ReplaceMainSteps(_, _, _)
ReplaceMainSteps(mainSteps, index, ps) ==
    IF index > Len(mainSteps) THEN [mainSteps |-> mainSteps, err |-> Nil]
    ELSE LET updated == [mainSteps EXCEPT ![index].inputs =
                                            ReplaceParameters(@)]
         IN IF ps = "unresolved"
            THEN [mainSteps |-> updated, err |-> ResolveError]
            ELSE ReplaceMainSteps(updated, index + 1, ps)

\* replaceValidatedPluginParameters(docContent, params): a non-empty
\* runtimeConfig is substituted and mainSteps is left alone; otherwise
\* mainSteps is substituted.
replaceValidatedPluginParameters(content, ps) ==
    IF content.runtimeConfig # {}
    THEN [content |-> content,
          err |-> IF ps = "unresolved" THEN ResolveError ELSE Nil]
    ELSE [content |-> [content EXCEPT !.mainSteps =
                          ReplaceMainSteps(@, 1, ps).mainSteps],
          err |-> ReplaceMainSteps(content.mainSteps, 1, ps).err]

\* getValidatedParameters(log, params, docContent): ValidateSSMParameters
\* fails (ps = "invalid") or the substitution is done.
getValidatedParameters(content, ps) ==
    IF ps = "invalid"
    THEN [content |-> content, err |-> InvalidParameters]
    ELSE replaceValidatedPluginParameters(content, ps)

\* updateutil.VersionCompare(versionl, versionr): the error result (a
\* component that is not a number) and the comparison.
VersionCompareErr(versionl, versionr) ==
    \/ \E i \in 1..Len(Split(versionl, ".")) : AtoiErr(Split(versionl, ".")[i])
    \/ \E i \in 1..Len(Split(versionr, ".")) : AtoiErr(Split(versionr, ".")[i])
VersionCompare(versionl, versionr) == Compare(versionl, versionr, TRUE)

\* An isPreconditionEnabled that asks for a version above 2.2.
isPreconditionEnabledAbove(schemaVersion) ==
    /\ ~VersionCompareErr(schemaVersion, preconditionSchemaVersion)
    /\ VersionCompare(schemaVersion, preconditionSchemaVersion) > 0

\* isPreconditionEnabled(schemaVersion)
isPreconditionEnabled(schemaVersion) ==
    /\ ~VersionCompareErr(schemaVersion, preconditionSchemaVersion)
    /\ VersionCompare(schemaVersion, preconditionSchemaVersion) >= 0

\* The PluginState of parsePluginStateForV20Schema for one step.
V20PluginState(step, enabled) ==
    [Id |-> step.name, Name |-> step.action,
     Configuration |-> [PluginID |-> step.name, PluginName |-> step.action,
                        Properties |-> step.inputs,
                        Preconditions |-> step.precondition,
                        IsPreconditionEnabled |-> enabled]]

\* The PluginState of parsePluginStateForV10Schema for one runtimeConfig
\* key.
NamedPluginState(pluginName) ==
    [Id |-> pluginName, Name |-> pluginName,
     Configuration |-> [PluginID |-> pluginName, PluginName |-> pluginName,
                        Properties |-> "nil", Preconditions |-> "nil",
                        IsPreconditionEnabled |-> FALSE]]

\* The PluginState of parsePluginStateForStartSession.
SessionPluginState(sessionId, clientId) ==
    [Id |-> PluginNameStandardStream, Name |-> PluginNameStandardStream,
     Configuration |-> [PluginID |-> PluginNameStandardStream,
                        PluginName |-> PluginNameStandardStream,
                        SessionId |-> sessionId, ClientId |-> clientId]]

\* A parsePluginStateForV20Schema that puts each PluginState before the
\* ones it already has.
parsePluginStateForV20SchemaPrepend(content) ==
    IF Len(content.mainSteps) = 0
    THEN [pluginsInfo |-> <<>>, err |-> UnsupportedSchemaFormat]
    ELSE [pluginsInfo |->
            [i \in 1..Len(content.mainSteps) |->
               V20PluginState(
                  content.mainSteps[Len(content.mainSteps) + 1 - i],
                  isPreconditionEnabled(content.schemaVersion))],
          err |-> Nil]

\* parsePluginStateForV20Schema(docContent, ...)
parsePluginStateForV20Schema(content) ==
    IF Len(content.mainSteps) = 0
    THEN [pluginsInfo |-> <<>>, err |-> UnsupportedSchemaFormat]
    ELSE [pluginsInfo |->
            [i \in 1..Len(content.mainSteps) |->
               V20PluginState(content.mainSteps[i],
                              isPreconditionEnabled(content.schemaVersion))],
          err |-> Nil]

\* A parsePluginStateForV10Schema that returns the PluginState of the
\* first entry only.
parsePluginStateForV10SchemaFirst(content, order) ==
    IF content.runtimeConfig = {}
    THEN [pluginsInfo |-> <<>>, err |-> UnsupportedSchemaFormat]
    ELSE [pluginsInfo |-> <<NamedPluginState(order[1])>>, err |-> Nil]

\* parsePluginStateForV10Schema(docContent, ...): order is the order in
\* which the range over the runtimeConfig map yields its keys.
parsePluginStateForV10Schema(content, order) ==
    IF content.runtimeConfig = {}
    THEN [pluginsInfo |-> <<>>, err |-> UnsupportedSchemaFormat]
    ELSE [pluginsInfo |-> [i \in 1..Len(order) |-> NamedPluginState(order[i])],
          err |-> Nil]

\* parseDocumentContent(docContent, parserInfo)
parseDocumentContent(content, order) ==
    IF content.schemaVersion \in V1xVersions
    THEN parsePluginStateForV10Schema(content, order)
    ELSE IF content.schemaVersion \in V2xVersions
    THEN parsePluginStateForV20Schema(content)
    ELSE [pluginsInfo |-> <<>>, err |-> UnsupportedDocument]

\* A parsePluginStateForStartSession that takes the client id for the
\* session id.
parsePluginStateForStartSessionClient(sessionId, clientId) ==
    [pluginsInfo |-> <<SessionPluginState(clientId, clientId)>>,
     err |-> Nil]

\* parsePluginStateForStartSession(parserInfo, sessionId, clientId)
parsePluginStateForStartSession(sessionId, clientId) ==
    [pluginsInfo |-> <<SessionPluginState(sessionId, clientId)>>,
     err |-> Nil]

\* DocContent.ParseDocument and SessionDocContent.ParseDocument: the document
\* content as it is left, the PluginStates and the error.
ParseDocument(type, content, info, ps, order) ==
    IF type = "SessionDocContent"
    THEN [content |-> content,
          pluginsInfo |->
             parsePluginStateForStartSession(info.DocumentID,
                                             info.ClientId).pluginsInfo,
          err |-> parsePluginStateForStartSession(info.DocumentID,
                                                  info.ClientId).err]
    ELSE IF validateSchema(content.schemaVersion) # Nil
    THEN [content |-> content, pluginsInfo |-> <<>>,
          err |-> validateSchema(content.schemaVersion)]
    ELSE IF getValidatedParameters(content, ps).err # Nil
    THEN [content |-> getValidatedParameters(content, ps).content,
          pluginsInfo |-> <<>>,
          err |-> getValidatedParameters(content, ps).err]
    ELSE [content |-> getValidatedParameters(content, ps).content,
          pluginsInfo |->
             parseDocumentContent(getValidatedParameters(content, ps).content,
                                  order).pluginsInfo,
          err |->
             parseDocumentContent(getValidatedParameters(content, ps).content,
                                  order).err]

\* The documents InitializeDocState is called with: up to MaxSteps steps and
\* up to the two runtimeConfig keys, under every schema version; a session
\* document has no runtimeConfig and comes with the ids of a session.
MaxSteps == 2
StepNames == {"pluginLinux", "pluginWindows"}
StepActions == {"aws:runShellScript", "aws:runPowerShellScript"}
StepInputs == {"echo ship_it", "{{p}}"}
StepPreconditions == {"platformType=Linux", "platformType=Windows"}
Steps == [name : StepNames, action : StepActions, inputs : StepInputs,
          precondition : StepPreconditions]
RuntimePlugins == {"aws:runShellScript", "aws:psModule"}
SchemaVersions == SupportedDocumentVersions \cup {V21, V01}
DocContents ==
    [schemaVersion : SchemaVersions,
     runtimeConfig : SUBSET RuntimePlugins,
     mainSteps : UNION {[1..n -> Steps] : n \in 0..MaxSteps}]
SessionDocContents ==
    [schemaVersion : SchemaVersions, runtimeConfig : {{}},
     mainSteps : UNION {[1..n -> Steps] : n \in 0..MaxSteps}]
DocInfos == [DocumentID : {"s-1", "s-2"}, ClientId : {"c-1", "c-2"}]
NoDocInfo == [DocumentID |-> "d-1", ClientId |-> ""]
ParamCases == {"valid", "invalid", "unresolved"}

\* The orders in which a range over a map with the keys `keys` may run.
Orders(keys) ==
    {o \in [1..Cardinality(keys) -> keys] :
        \A i, j \in 1..Cardinality(keys) : i # j => o[i] # o[j]}

\* A call of InitializeDocState is about to be made.
DocInit ==
    /\ NewPool(NWorkers, MaxCalls)
    /\ CmpIdle
    /\ NameIdle
    /\ PkgIdle
    /\ \/ /\ docType = "DocContent"
          /\ docContent \in DocContents
          /\ docInfo = NoDocInfo
       \/ /\ docType = "SessionDocContent"
          /\ docContent \in SessionDocContents
          /\ docInfo \in DocInfos
    /\ params \in ParamCases
    /\ pluginsInfo = <<>>
    /\ err = Nil
    /\ dpc = "call"

\* InitializeDocState(log, documentType, docContent, docInfo, parserInfo,
\* params): ParseDocument is called; on an error no PluginState is
\* returned.
InitializeDocState ==
    /\ dpc = "call"
    /\ \E order \in Orders(docContent.runtimeConfig) :
          /\ docContent' = ParseDocument(docType, docContent, docInfo,
                                         params, order).content
          /\ err' = ParseDocument(docType, docContent, docInfo, params, order).err
          /\ pluginsInfo' =
                IF ParseDocument(docType, docContent, docInfo, params, order).err # Nil
                THEN <<>>
                ELSE ParseDocument(docType, docContent, docInfo,
                                   params, order).pluginsInfo
    /\ dpc' = "done"
    /\ UNCHANGED <<poolVars, cmpVars, nameVars, pkgVars, docType, docInfo,
                   params>>

DocSpec == DocInit /\ [][InitializeDocState]_vars

\* ====================================================== birdwatcherservice
\* A manifest document as DownloadArchiveInfo returns it and as the cache
\* stores it: the package and the version it names, its content, the way
\* it is laid out as text, and whether it is well-formed.
MaxDownloads == 3
Arns == {"arn:pkg"}
ManifestVersions == {"1.0", "2.0"}
Bodies == {"x", "y"}
Layouts == {"compact", "indented"}
ByteManifests ==
    [arn : Arns, version : ManifestVersions, body : Bodies, layout : Layouts,
     wellFormed : BOOLEAN]

\* The versions DownloadManifest is asked for.
RequestVersions == {"latest", "1.0"}

\* DownloadArchiveInfo returned an error; a nil *birdwatcher.Manifest; no
\* file in the cache.
DownloadFailed == [error |-> TRUE]
NilManifest == [nil |-> TRUE]
NoFile == [nofile |-> TRUE]
NoDownload == [none |-> TRUE]

\* archive.ParseManifest: the manifest of a well-formed document (its
\* layout is gone), an error otherwise.
ParseManifestErr(bytes) == ~bytes.wellFormed
ParseManifest(bytes) ==
    [PackageArn |-> bytes.arn, Version |-> bytes.version, Body |-> bytes.body]

\* ReadManifestFromCache(arn, version): the manifest parsed from the file
\* of the key; nil (and an error) if there is none or it does not parse.
ReadManifestFromCache(cache, arn, version) ==
    IF cache[<<arn, version>>] = NoFile THEN NilManifest
    ELSE IF ParseManifestErr(cache[<<arn, version>>]) THEN NilManifest
    ELSE ParseManifest(cache[<<arn, version>>])

\* WriteManifestToCache(arn, version, bytes), when it succeeds.
WriteManifestToCache(cache, arn, version, bytes) ==
    [cache EXCEPT ![<<arn, version>>] = bytes]

\* SetResource(packageName, version, manifest)
SetResource(res, version, manifest) == [res EXCEPT ![version] = manifest]

\* The errors of downloadManifest.
DownloadError == "failed to download manifest"
ParseError == "parse error"
WriteError == "failed to write manifest to file"

\* A downloadManifest that writes the downloaded manifest to the cache
\* before it reads the cache for the comparison.
downloadManifestWriteFirst(cache, res, version, info, writeOk) ==
    IF info = DownloadFailed
    THEN [manifest |-> NilManifest, isSameAsCache |-> FALSE,
          err |-> DownloadError, cache |-> cache, resource |-> res]
    ELSE IF ParseManifestErr(info)
    THEN [manifest |-> NilManifest, isSameAsCache |-> FALSE,
          err |-> ParseError, cache |-> cache, resource |-> res]
    ELSE IF ~writeOk
    THEN [manifest |-> NilManifest,
          isSameAsCache |->
             ParseManifest(info) = ReadManifestFromCache(cache, info.arn,
                                                         info.version),
          err |-> WriteError, cache |-> cache,
          resource |-> SetResource(res, version, ParseManifest(info))]
    ELSE [manifest |-> ParseManifest(info),
          isSameAsCache |->
             ParseManifest(info) =
                ReadManifestFromCache(
                   WriteManifestToCache(cache, info.arn, info.version, info),
                   info.arn, info.version),
          err |-> "nil",
          cache |-> WriteManifestToCache(cache, info.arn, info.version, info),
          resource |-> SetResource(res, version, ParseManifest(info))]

\* downloadManifest(tracer, ds, packageName, version): info is what
\* DownloadArchiveInfo returns and writeOk whether WriteManifestToCache
\* succeeds. The result has the three values returned and the cache and
\* the archive's resources after the call.
downloadManifest(cache, res, version, info, writeOk) ==
    IF info = DownloadFailed
    THEN [manifest |-> NilManifest, isSameAsCache |-> FALSE,
          err |-> DownloadError, cache |-> cache, resource |-> res]
    ELSE IF ParseManifestErr(info)
    THEN [manifest |-> NilManifest, isSameAsCache |-> FALSE,
          err |-> ParseError, cache |-> cache, resource |-> res]
    ELSE IF ~writeOk
    THEN [manifest |-> NilManifest,
          isSameAsCache |->
             ParseManifest(info) = ReadManifestFromCache(cache, info.arn,
                                                         info.version),
          err |-> WriteError, cache |-> cache,
          resource |-> SetResource(res, version, ParseManifest(info))]
    ELSE [manifest |-> ParseManifest(info),
          isSameAsCache |->
             ParseManifest(info) = ReadManifestFromCache(cache, info.arn,
                                                         info.version),
          err |-> "nil",
          cache |-> WriteManifestToCache(cache, info.arn, info.version, info),
          resource |-> SetResource(res, version, ParseManifest(info))]

\* The caches a package service can be given: under each key no file or a
\* well-formed manifest of that package and version.
CacheKeys == Arns \X ManifestVersions
ManifestCaches ==
    {cache \in [CacheKeys -> ByteManifests \cup {NoFile}] :
        \A k \in CacheKeys :
           cache[k] # NoFile =>
              (cache[k].wellFormed /\ cache[k].arn = k[1]
                  /\ cache[k].version = k[2])}

\* New(pkgArchive, facadeClient, manifestCache, name): a package service
\* over a manifest cache, with no resource set.
PkgInit ==
    /\ NewPool(NWorkers, MaxCalls)
    /\ CmpIdle
    /\ NameIdle
    /\ DocIdle
    /\ manifestCache \in ManifestCaches
    /\ resource = [v \in RequestVersions |-> NilManifest]
    /\ byteManifest = NoDownload
    /\ parsedManifest = NilManifest
    /\ isSameAsCache = FALSE
    /\ dmErr = "nil"
    /\ downloads = 0

\* PackageService.DownloadManifest(tracer, packageName, version)
DownloadManifest(version, info, writeOk) ==
    /\ downloads < MaxDownloads
    /\ downloads' = downloads + 1
    /\ byteManifest' = info
    /\ parsedManifest' =
          downloadManifest(manifestCache, resource, version, info,
                           writeOk).manifest
    /\ isSameAsCache' =
          downloadManifest(manifestCache, resource, version, info,
                           writeOk).isSameAsCache
    /\ dmErr' =
          downloadManifest(manifestCache, resource, version, info,
                           writeOk).err
    /\ manifestCache' =
          downloadManifest(manifestCache, resource, version, info,
                           writeOk).cache
    /\ resource' =
          downloadManifest(manifestCache, resource, version, info,
                           writeOk).resource
    /\ UNCHANGED <<poolVars, cmpVars, nameVars, docVars>>

PkgNext ==
    \E version \in RequestVersions :
    \E info \in ByteManifests \cup {DownloadFailed} :
    \E writeOk \in BOOLEAN :
       DownloadManifest(version, info, writeOk)

PkgSpec == PkgInit /\ [][PkgNext]_vars

\* ----------------------------------------------------------------- claims
\* The job bodies that have begun and not returned, and those of them that
\* their processor is still waiting for.
Executing == {t \in Tokens : life[t] \in {"running", "abandoned"}}
Attended  == {t \in Tokens : life[t] = "running"}

\* C1 (as stated): the number of job bodies that have been started and have
\* not returned, abandoned ones included, never exceeds nWorkers.
C1_AllBodiesBounded == Cardinality(Executing) <= nWorkers

\* C1 (amended): the number of job bodies that have been started, have not
\* returned and have not been abandoned by their processor never exceeds
\* nWorkers.
C1_AttendedBodiesBounded == Cardinality(Attended) <= nWorkers

\* C1 witness: every worker has a running job body while an abandoned one
\* is still running.
C1_Witness ==
    /\ Cardinality(Attended) = nWorkers
    /\ \E t \in Tokens : life[t] = "abandoned"

\* The job body of t has begun (and may have ended).
Started(t) == life[t] \in {"running", "abandoned", "returned", "panicked"}

\* C2 (as stated): a Submit called after Shutdown has returned returns a
\* PoolShutDown error, does not panic, and its job is never executed. (A
\* DuplicateJob error is let pass too: AddJob is tried before the queue.)
C2_LateSubmitRejected ==
    /\ (ret.op = "Submit" /\ ret.late) =>
           (ret.res \in {"PoolShutDown", "DuplicateJob"}
                /\ ~Started(ret.tok))
    /\ \A c \in Callers :
           (caller[c].op = "Submit" /\ caller[c].late) =>
               ~Started(caller[c].tok)

\* C3: Submit(id) while a token with that id is in JobStore returns
\* DuplicateJob, and a Submit that returns DuplicateJob leaves JobStore,
\* every flag and every other token as they were; its own token is never
\* enqueued.
C3_DuplicateRejected ==
    [][ /\ (ntok' = ntok + 1 /\ jobStore[tokId'[ntok']] # None) =>
               (ret'.op = "Submit" /\ ret'.res = "DuplicateJob"
                    /\ ret'.tok = ntok')
        /\ (ret'.op = "Submit" /\ ret'.res = "DuplicateJob") =>
               /\ jobStore[ret'.id] # None
               /\ jobStore' = jobStore
               /\ flag' = flag
               /\ \A t \in Tokens \ {ret'.tok} : life'[t] = life[t]
               /\ life'[ret'.tok] = "dup"
        /\ \A t \in Tokens : life[t] = "dup" => life'[t] = "dup" ]_vars

\* C3 witness: a Submit has just returned DuplicateJob while the job first
\* submitted under that id is executing with its flag Running.
C3_Witness ==
    /\ ret.op = "Submit"
    /\ ret.res = "DuplicateJob"
    /\ jobStore[ret.id] # None
    /\ life[jobStore[ret.id]] = "running"
    /\ flag[jobStore[ret.id]] = Running

\* No call is in progress, and every worker is at its receive or has left
\* its loop.
AllQuiet ==
    /\ \A c \in Callers : caller[c].pc = "idle"
    /\ \A w \in Workers : wpc[w] \in {"recv", "done", "exited", "absent"}

\* The Submit calls made so far used pairwise distinct job ids.
DistinctIds ==
    \A t, u \in 1..ntok : t # u => tokId[t] # tokId[u]

\* C5 (as stated): with pairwise distinct job ids, JobStore is empty once
\* all calls have returned and every worker is idle or has exited.
C5_StoreEmptyWhenQuiet ==
    (AllQuiet /\ DistinctIds) => jobStore = EmptyStore

\* C6 (as stated): a job for which Cancel returned true before its body
\* began is never started.
C6_CanceledNeverStarted ==
    \A t \in early : ~Started(t)

PoolWorkers == {w \in Workers : w <= nWorkers}

\* C8 (as stated): ShutdownAndWait returns true only if every worker has
\* left its loop and reported on doneWorker, and returns false only when
\* its exit timer has fired and some worker has not reported.
C8_WaitResult ==
    [][ /\ (ret'.op = "ShutdownAndWait" /\ ret'.res = "true") =>
               \A w \in PoolWorkers : wpc'[w] = "exited"
        /\ (ret'.op = "ShutdownAndWait" /\ ret'.res = "false") =>
               /\ \E c \in Callers : caller[c].op = "ShutdownAndWait"
                                        /\ caller[c].et = "ready"
                                        /\ caller'[c] = NoCall
               /\ \E w \in PoolWorkers : wpc'[w] # "exited" ]_vars

\* ShutdownAndWait of caller c ends its CancelAll in this step.
CancelAllEnds(c) ==
    /\ caller[c].op = "ShutdownAndWait"
    /\ \/ caller[c].pc = "select" /\ caller[c].tt = "ready"
             /\ caller'[c].tt = "taken" /\ caller'[c].pc = "select"
       \/ caller[c].pc = "cancelall" /\ caller'[c].pc = "select"

\* C10 (as stated): when the CancelAll invoked at the timeout of
\* ShutdownAndWait ends, every job that is still executing has its flag
\* Canceled.
C10_CancelAllCancelsExecuting ==
    [][ \A c \in Callers :
            CancelAllEnds(c) =>
                \A t \in Tokens :
                    life'[t] \in {"running", "abandoned"} =>
                        flag'[t] = Canceled ]_vars

\* The token of t has been received by a worker that ran its job body, or
\* that discarded it with its flag Canceled or ShutDown.
Handled(t) ==
    \/ Started(t)
    \/ life[t] = "discarded" /\ flag[t] \in {Canceled, ShutDown}

\* C4 (as stated): every token that Submit inserted into JobStore is
\* eventually executed or received and discarded by a worker.
C4_AcceptedEventuallyHandled ==
    \A t \in Tokens : (life[t] = "queued") ~> Handled(t)

\* C9: a ShutdownAndWait call that has begun returns.
C9_WaitReturns ==
    \A c \in Callers :
        (caller[c].op = "ShutdownAndWait") ~> (caller[c].op # "ShutdownAndWait")

\* C9 witness: ShutdownAndWait has just returned false while a job body
\* that was started before the call is still running.
C9_Witness ==
    /\ ret.op = "ShutdownAndWait"
    /\ ret.res = "false"
    /\ \E t \in Tokens : life[t] \in {"running", "abandoned"}

\* ---------------------------------------------------------------------- C11
\* A Shutdown call has passed its close while another one returned: both
\* calls went through the guarded close.
ShutdownPassed(c) ==
    caller[c].op = "ShutdownAndWait" /\ caller[c].pc \in {"select", "cancelall"}

\* C11: Shutdown is idempotent. The queue changes only once, from open to
\* closed, in a step taken while isShutdown is false; once isShutdown is
\* set, no step changes isShutdown or the queue, and a Shutdown call that
\* reaches its close then changes nothing of the pool; every Shutdown call
\* returns normally (no panic) with the queue closed and isShutdown set.
C11_ShutdownIdempotent ==
    [][ /\ (jobQueue' # jobQueue =>
              jobQueue = "open" /\ jobQueue' = "closed" /\ ~isShutdown)
        /\ (isShutdown => isShutdown' /\ jobQueue' = jobQueue)
        /\ (ret'.op = "Shutdown" =>
              ret'.res = "done" /\ isShutdown' /\ jobQueue' = "closed")
        /\ \A c \in Callers :
              (caller[c].pc = "close" /\ isShutdown /\ caller'[c] # caller[c])
              => UNCHANGED <<jobStore, jobQueue, isShutdown, flag, life>>
      ]_vars

\* A Shutdown call returned after another call's close had acted too.
C11_Witness ==
    /\ ret.op = "Shutdown"
    /\ ret.res = "done"
    /\ \E c \in Callers : ShutdownPassed(c)
    /\ jobQueue = "closed"

\* ---------------------------------------------------------------------- C12
\* Worker w is inside the processor of its token.
InProcessor(w) == wpc[w] \in {"wait", "cancelwait"}

\* C12: a worker leaves its loop (goes on to workerDone) only from its
\* receive, holding no token, when the queue is closed; a worker whose
\* processor ends, the job body having returned or panicked or having been
\* abandoned, is back at its receive.
C12_WorkerLeavesOnlyOnClose ==
    [][ \A w \in Workers :
          /\ (wpc[w] # "done" /\ wpc'[w] = "done") =>
                (jobQueue = "closed" /\ wpc[w] = "recv" /\ wtok[w] = None)
          /\ (InProcessor(w) /\ wpc'[w] \notin {"wait", "cancelwait"}) =>
                wpc'[w] = "recv"
      ]_vars

\* The one worker of the pool received a token after the body of an earlier,
\* never cancelled job panicked.
C12_Witness ==
    /\ nWorkers = 1
    /\ \E t, u \in Tokens :
          /\ t # u
          /\ life[t] = "panicked"
          /\ flag[t] = Running
          /\ wtok[1] = u
          /\ life[u] = "received"

\* ---------------------------------------------------------------------- C13
\* C13: when the processor of a job ends (the body returned or panicked, or
\* the job was abandoned after a cancellation), JobStore holds no entry for
\* that job's id.
C13_ExitLeavesNoEntry ==
    [][ \A w \in Workers :
          (InProcessor(w) /\ wpc'[w] = "recv") =>
             GetJob(jobStore', tokId[wtok[w]]) = None
      ]_vars

\* The processor of a job that was never cancelled has ended and the id of
\* the job is absent from JobStore.
C13_Witness ==
    \E t \in Tokens :
       /\ life[t] \in {"returned", "panicked"}
       /\ flag[t] = Running
       /\ \A w \in Workers : wtok[w] # t
       /\ \A c \in Callers : caller[c].op = "none"
       /\ GetJob(jobStore, tokId[t]) = None

\* ---------------------------------------------------------------------- C14
\* C14: a cancel flag leaves Running at most once. In every step of every
\* interleaving of Cancel, CancelAll and Shutdown, a flag that is Canceled or
\* ShutDown keeps its state (so ShutDown never becomes Canceled, Canceled
\* never becomes ShutDown, and none returns to Running).
C14_FlagLeavesRunningOnce ==
    [][ \A t \in Tokens : flag[t] # Running => flag'[t] = flag[t] ]_vars

\* Cancel returned true for a token whose flag Shutdown had set to ShutDown
\* before: the Set of Cancel acted on a flag that was not Running.
C14_Witness ==
    /\ ret.op = "Cancel"
    /\ ret.res = "true"
    /\ flag[ret.tok] = ShutDown

\* ---------------------------------------------------------------------- C19
\* C19: for the versions a, b of a call and both values of strict, the sign
\* of Compare(a, b, strict) is the opposite of the sign of
\* Compare(b, a, strict), and Compare(a, a, strict) = 0.
C19_Antisymmetric ==
    cpc = "done" =>
       /\ Sign(cmpResult) = 0 - Sign(Compare(other, this, strictSort))
       /\ (this = other => cmpResult = 0)

\* The call Compare("1.0.0.0", "1", false) returned 0: two different
\* versions, not both semver, that are equal once normalized.
C19_Witness ==
    /\ cpc = "done"
    /\ ~strictSort
    /\ this = V1000
    /\ other = V1
    /\ cmpResult = 0

\* ---------------------------------------------------------------------- C20
\* The two versions of the call are not both semver and tie on every
\* aligned component (the component loop of Compare runs to its end).
RECURSIVE Tie(_, _, _)
Tie(tc, oc, i) ==
    IF i > Len(tc) \/ i > Len(oc) THEN TRUE
    ELSE /\ IF ~AtoiErr(tc[i]) /\ ~AtoiErr(oc[i])
            THEN Atoi(tc[i]) = Atoi(oc[i]) ELSE tc[i] = oc[i]
         /\ Tie(tc, oc, i + 1)
ThisComponents == Split(ForCompare(this, strictSort), ".")
OtherComponents == Split(ForCompare(other, strictSort), ".")
TieCall ==
    /\ cpc = "done"
    /\ ~(SemVerOk(this) /\ SemVerOk(other))
    /\ Tie(ThisComponents, OtherComponents, 1)

\* C20 (as stated): on such a tie Compare returns the sign of the length
\* difference, a value in {-1, 0, 1}; Compare("1.0.0.0", "1", true) = 1.
C20_TieReturnsSign ==
    /\ TieCall =>
         /\ cmpResult \in {0 - 1, 0, 1}
         /\ cmpResult = Sign(Len(ThisComponents) - Len(OtherComponents))
    /\ (cpc = "done" /\ this = V1000 /\ other = V1 /\ strictSort)
         => cmpResult = 1

\* C20 (amended): on such a tie Compare returns the difference of the
\* numbers of components; Compare("1.0.0.0", "1", true) = 3.
C20_TieReturnsDifference ==
    /\ TieCall => cmpResult = Len(ThisComponents) - Len(OtherComponents)
    /\ (cpc = "done" /\ this = V1000 /\ other = V1 /\ strictSort)
         => cmpResult = 3

\* The call Compare("1.0.0.0", "1", true) returned.
C20_Witness ==
    /\ TieCall
    /\ this = V1000
    /\ other = V1
    /\ strictSort
    /\ cmpResult = 3

\* ---------------------------------------------------------------------- C15
\* The step of InitializeDocState on a DocContent of a v2.x schema version.
V2Call ==
    /\ dpc = "call"
    /\ dpc' = "done"
    /\ docType = "DocContent"
    /\ docContent.schemaVersion \in V2xVersions

\* The call returned, without error, one PluginState per step of the
\* mainSteps it was given, the i-th with the name of step i as its id and
\* the action of step i as its name.
StepsInOrder ==
    /\ err' = Nil
    /\ Len(pluginsInfo') = Len(docContent.mainSteps)
    /\ \A i \in 1..Len(docContent.mainSteps) :
          /\ pluginsInfo'[i].Id = docContent.mainSteps[i].name
          /\ pluginsInfo'[i].Name = docContent.mainSteps[i].action

C16_UnsupportedRejected ==
    [][ (/\ dpc = "call"
         /\ dpc' = "done"
         /\ docContent.schemaVersion \notin SupportedDocumentVersions)
        => (/\ err' = UnsupportedSchema
            /\ pluginsInfo' = <<>>
            /\ docContent' = docContent)
      ]_vars

\* ---------------------------------------------------------------------- C17
\* C17: every PluginState produced from a v2.x document has
\* IsPreconditionEnabled = (schemaVersion >= "2.2" under Compare, strict or
\* not), which is true for 2.2 and false for 2.0, 2.0.1, 2.0.2 and 2.0.3,
\* and carries the preconditions of its step.
C17_PreconditionEnabled ==
    [][ V2Call =>
          \A i \in 1..Len(pluginsInfo') :
             /\ \A strict \in BOOLEAN :
                   pluginsInfo'[i].Configuration.IsPreconditionEnabled
                     = (Compare(docContent.schemaVersion, V22, strict) >= 0)
             /\ pluginsInfo'[i].Configuration.IsPreconditionEnabled
                     = (docContent.schemaVersion = V22)
             /\ pluginsInfo'[i].Configuration.Preconditions
                     = docContent.mainSteps[i].precondition
      ]_vars

\* The 2.2 document with the steps pluginLinux and pluginWindows was parsed:
\* both PluginStates have the flag set and carry their preconditions.
C17_Witness ==
    /\ dpc = "done"
    /\ docType = "DocContent"
    /\ docContent.schemaVersion = V22
    /\ Len(pluginsInfo) = 2
    /\ pluginsInfo[1].Id = "pluginLinux"
    /\ pluginsInfo[2].Id = "pluginWindows"
    /\ pluginsInfo[1].Configuration.Preconditions = "platformType=Linux"
    /\ pluginsInfo[2].Configuration.Preconditions = "platformType=Windows"
    /\ pluginsInfo[1].Configuration.IsPreconditionEnabled
    /\ pluginsInfo[2].Configuration.IsPreconditionEnabled

\* ---------------------------------------------------------------------- C18
\* C18: ParseDocumentNameAndVersion(n + ":" + v) returns (n, v) for every
\* name n that does not end in ":" and every version v, names that contain
\* ":" included.
C18_RoundTrip ==
    \A n \in Names, v \in DocVersions :
       (/\ npc = "done"
        /\ name = WithVersion(n, v)
        /\ (n = <<>> \/ n[Len(n)] # ":"))
       => (docName = n /\ docVersion = v)

\* ---------------------------------------------------------------------- C21
\* k components ".0".
RECURSIVE ZeroComponents(_)
ZeroComponents(k) ==
    IF k = 0 THEN <<>> ELSE <<".", "0">> \o ZeroComponents(k - 1)

\* Version t is version o followed by one or more components ".0".
ZeroExtension(t, o) ==
    \E k \in 1..MaxComponents : t = o \o ZeroComponents(k)

\* Each component of version v that normalizeForCompare drops (or cuts) is
\* numerically zero.
OnlyZerosDropped(v) ==
    \A i \in 1..Len(Split(v, ".")) :
       (\/ i > Len(Split(normalizeForCompare(v), "."))
        \/ Split(normalizeForCompare(v), ".")[i] # Split(v, ".")[i])
       => (/\ ~AtoiErr(Split(v, ".")[i])
           /\ Atoi(Split(v, ".")[i]) = 0)

\* C21: with strict = false, Compare(v + k*".0", v, false) = 0 for every v
\* and k >= 1 such that the two are not both valid semver, and in a call on
\* versions that are not both semver no trailing component is dropped that
\* is not numerically zero.
C21_TrailingZerosIgnored ==
    (cpc = "done" /\ ~strictSort /\ ~(SemVerOk(this) /\ SemVerOk(other)))
    => /\ (ZeroExtension(this, other) => cmpResult = 0)
       /\ OnlyZerosDropped(this)
       /\ OnlyZerosDropped(other)

\* ---------------------------------------------------------------------- C22
\* strings.ToLower on the letters of the alphabet.
RECURSIVE ToLower(_)
ToLower(s) ==
    IF s = <<>> THEN <<>>
    ELSE <<IF Head(s) = "A" THEN "a" ELSE Head(s)>> \o ToLower(Tail(s))

\* C22: with strict = false, two versions that are not both semver and
\* differ only in letter case compare equal.
C22_CaseInsensitive ==
    (/\ cpc = "done"
     /\ ~strictSort
     /\ ~(SemVerOk(this) /\ SemVerOk(other))
     /\ ToLower(this) = ToLower(other))
    => cmpResult = 0

\* ---------------------------------------------------------------------- C23
\* The step of InitializeDocState on a DocContent of a v1.x schema version
\* with a non-empty runtimeConfig, the parameters of which validate and
\* resolve (the call gets as far as parseDocumentContent).
V1Call ==
    /\ dpc = "call"
    /\ dpc' = "done"
    /\ docType = "DocContent"
    /\ docContent.schemaVersion \in V1xVersions
    /\ docContent.runtimeConfig # {}
    /\ params = "valid"

C24_SessionOnePlugin ==
    [][ (dpc = "call" /\ dpc' = "done" /\ docType = "SessionDocContent")
        => /\ err' = Nil
           /\ Len(pluginsInfo') = 1
           /\ pluginsInfo'[1].Id = PluginNameStandardStream
           /\ pluginsInfo'[1].Name = PluginNameStandardStream
           /\ pluginsInfo'[1].Configuration.SessionId = docInfo.DocumentID
           /\ pluginsInfo'[1].Configuration.ClientId = docInfo.ClientId
           /\ docContent' = docContent
      ]_vars

\* A session document with two steps and parameters that do not validate
\* was given one PluginState carrying the session id and the client id.
C24_Witness ==
    /\ dpc = "done"
    /\ docType = "SessionDocContent"
    /\ Len(docContent.mainSteps) = 2
    /\ params = "invalid"
    /\ Len(pluginsInfo) = 1
    /\ pluginsInfo[1].Configuration.SessionId = "s-2"
    /\ pluginsInfo[1].Configuration.ClientId = "c-1"

\* ---------------------------------------------------------------------- C26
\* C26 (as stated): a Submit that began before Shutdown had closed the
\* queue (isShutdown was false at its AddJob) never panics: it hands its
\* token to a worker or returns an error.
C26_RacingSubmitNoPanic ==
    /\ (ret.op = "Submit" /\ ~ret.late) => ret.res \in {"nil", "DuplicateJob"}
    /\ \A t \in Tokens : life[t] = "sendpanic" =>
          \A c \in Callers : ~(caller[c].op = "Submit" /\ caller[c].tok = t)

\* ---------------------------------------------------------------------- C27
\* Caller c is in a Cancel that has found token t (GetJob returned it):
\* all that is left of the call is DeleteJob, Set and return true.
CancelFound(c, t) ==
    caller[c].op = "Cancel" /\ caller[c].tok = t /\ caller[c].pc \in {"del", "set"}

\* C27 (as stated): of the Cancel calls for one job at most one returns
\* true: when a Cancel returns true for a token, no other Cancel call has
\* found the same token and is on its way to returning true as well.
C27_OneCancelReturnsTrue ==
    [][ (ret'.op = "Cancel" /\ ret'.res = "true") =>
           \A c \in Callers : \A t \in Tokens :
              t = ret'.tok => ~CancelFound(c, t)' ]_vars

\* ---------------------------------------------------------------------- C28
\* C28 (as stated): a worker that tests a received token whose flag is
\* ShutDown discards it and is back at its receive; the job body never
\* begins. (A flag that is ShutDown at the receipt is ShutDown at the test.)
C28_ShutDownDiscarded ==
    [][ \A w \in Workers :
          (wpc[w] = "check" /\ flag[wtok[w]] = ShutDown /\ wpc'[w] # "check")
          => (wpc'[w] = "recv" /\ life'[wtok[w]] = "discarded") ]_vars

ProcessingCanceled(w) ==
    wpc[w] \in {"wait", "cancelwait"} /\ flag[wtok[w]] # Running

\* C30: a worker in the processor of a job whose flag has left Running is
\* back at its receive, without the token, once the cancelWait timer has
\* fired, whether or not the job body ever returns; when an abandoned job
\* body ends, nothing of the pool and of JobStore changes.
C30_WorkerFreedAfterCancelWait ==
    /\ \A w \in Workers :
          ProcessingCanceled(w) ~> (wpc[w] = "recv" /\ wtok[w] = None)
    /\ [][ \A t \in Tokens :
             (life[t] = "abandoned" /\ life'[t] # "abandoned")
             => UNCHANGED <<jobStore, jobQueue, isShutdown, flag, wpc, wtok,
                            caller, tokId, ntok>> ]_vars

\* C30 witness: the body of a job whose flag is Canceled is still running,
\* abandoned; no worker holds its token, its id is out of JobStore and a
\* worker is at its receive.
C30_Witness ==
    \E t \in Tokens :
       /\ life[t] = "abandoned"
       /\ flag[t] = Canceled
       /\ \A w \in Workers : wtok[w] # t
       /\ jobStore[tokId[t]] # t
       /\ \E w \in Workers : wpc[w] = "recv"

\* ---------------------------------------------------------------------- C31
\* The callers blocked inside Submit (on the send of their token).
InSubmit == {c \in Callers : caller[c].op = "Submit"}

\* The tokens Submit inserted whose job has not finished: waiting for a
\* worker, held by a worker, or with a body still running (abandoned or
\* not).
Outstanding ==
    {t \in Tokens : life[t] \in {"queued", "received", "running", "abandoned"}}

\* The outstanding tokens that a Submit is sending or a worker holds.
InHand == {t \in Tokens : life[t] \in {"queued", "received", "running"}}

\* A Submit that has just returned nil gave its token to a worker.
SubmitNilReceived ==
    (ret.op = "Submit" /\ ret.res = "nil")
        => (life[ret.tok] = "received" /\ \E w \in Workers : wtok[w] = ret.tok)

\* C31 (as stated): Submit returns nil only when a worker has received its
\* token, and the tokens accepted and not finished are at most nWorkers
\* plus the callers inside Submit.
C31_OutstandingBounded ==
    /\ SubmitNilReceived
    /\ Cardinality(Outstanding) <= nWorkers + Cardinality(InSubmit)

\* C31 (amended): Submit returns nil only when a worker has received its
\* token, and the tokens that a Submit is sending or a worker holds are at
\* most nWorkers plus the callers inside Submit; the abandoned job bodies
\* run beside them.
C31_InHandBounded ==
    /\ SubmitNilReceived
    /\ Cardinality(InHand) <= nWorkers + Cardinality(InSubmit)

\* C31 witness: the worker holds one token, a caller is blocked in Submit
\* with a second one, and the bound is met.
C31_Witness ==
    /\ Cardinality(InSubmit) = 1
    /\ Cardinality(InHand) = nWorkers + 1
    /\ \E w \in Workers : wtok[w] # None

\* ---------------------------------------------------------------------- C32
\* Caller c is inside a Submit that inserted token t.
Sending(c, t) == caller[c].op = "Submit" /\ caller[c].tok = t

\* C32: of the Submit calls of one id that run together, the one whose
\* AddJob finds no entry of the id inserts its token and goes on to send
\* it; every one whose AddJob finds an entry returns DuplicateJob and
\* leaves JobStore and the entry's token as they are. JobStore holds under
\* an id only a token of that id.
C32_OneSubmitInserts ==
    [][ /\ \A i \in Ids :
             (ntok' = ntok + 1 /\ tokId'[ntok'] = i) =>
                IF jobStore[i] = None
                THEN /\ jobStore' = [jobStore EXCEPT ![i] = ntok']
                     /\ life'[ntok'] = "queued"
                     /\ \E c \in Callers : \E t \in Tokens :
                           t = ntok' /\ Sending(c, t)'
                     /\ ret' = NoRet
                ELSE /\ jobStore' = jobStore
                     /\ life' = [life EXCEPT ![ntok'] = "dup"]
                     /\ flag' = flag
                     /\ ret'.op = "Submit" /\ ret'.res = "DuplicateJob"
                     /\ ret'.tok = ntok'
                     /\ \A c \in Callers : \A t \in Tokens :
                           t = ntok' => ~Sending(c, t)'
        /\ \A i \in Ids : jobStore'[i] # None => tokId'[jobStore'[i]] = i
      ]_vars

\* C32 witness: while one Submit of an id is blocked on its send, with its
\* token in JobStore, another Submit of the same id has just returned
\* DuplicateJob.
C32_Witness ==
    /\ ret.op = "Submit"
    /\ ret.res = "DuplicateJob"
    /\ \E c \in Callers :
          /\ caller[c].op = "Submit"
          /\ caller[c].id = ret.id
          /\ jobStore[ret.id] = caller[c].tok
          /\ caller[c].tok # ret.tok

\* ---------------------------------------------------------------------- C33
\* A Cancel, a ShutDownAll or a CancelAll has taken token t out of JobStore
\* and is about to set its flag.
BeingCanceled(t) ==
    \E c \in Callers :
       \/ caller[c].op = "Cancel" /\ caller[c].tok = t
       \/ t \in caller[c].snap

\* C33 (as stated): a job that is queued or executing, whose flag is
\* Running and which no call is in the middle of cancelling, is in
\* JobStore under its id.
C33_RunningJobsTracked ==
    \A t \in Tokens :
       (life[t] \in {"queued", "received", "running"}
          /\ flag[t] = Running /\ ~BeingCanceled(t))
       => jobStore[tokId[t]] = t

\* ---------------------------------------------------------------------- C34
\* C34 (as stated): no two jobs of one id are queued or executing at the
\* same time.
C34_OneJobPerId ==
    \A t \in Tokens : \A u \in Tokens :
       (t # u /\ tokId[t] = tokId[u] /\ t \in Outstanding /\ u \in Outstanding)
       => FALSE

\* ---------------------------------------------------------------------- C35
\* No accepted job that has not finished has a Running flag.
AllOutstandingStopped == \A t \in Outstanding : flag[t] # Running

\* C35 (as stated): in the state in which Shutdown returns (by itself or
\* as the first part of ShutdownAndWait), every job that Submit accepted
\* and that has not finished has a flag other than Running.
C35_ShutdownStopsAll ==
    [][ \A c \in Callers :
          (caller[c].pc = "close" /\ caller'[c].pc # "close")
          => AllOutstandingStopped' ]_vars

\* ---------------------------------------------------------------------- C36
\* C36 (as stated): a ShutdownAndWait call that returns false has taken
\* the case of its timeout timer (which calls CancelAll) before.
C36_FalseOnlyAfterCancelAll ==
    [][ \A c \in Callers :
          (caller[c].op = "ShutdownAndWait" /\ caller'[c].op = "none"
             /\ ret'.res = "false")
          => caller[c].tt = "taken" ]_vars

\* ---------------------------------------------------------------------- C37
\* C37 (as stated): a ShutdownAndWait call that began when every worker of
\* the pool had already ended returns true.
C37_LateWaitReturnsTrue ==
    (ret.op = "ShutdownAndWait" /\ ret.late) => ret.res = "true"

\* ---------------------------------------------------------------------- C38
\* C38 (as stated): a worker that has left its loop on the closed queue
\* and is sending on doneWorker gets its signal delivered, and its
\* goroutine ends.
C38_WorkerDoneDelivered ==
    \A w \in Workers : (wpc[w] = "done") ~> (wpc[w] = "exited")

\* ---------------------------------------------------------------------- C39
\* C39 (as stated): Compare with strictSort is transitive. For the
\* versions a, b of a strict call that returned a negative number and
\* every four-component version c: if Compare(b, c, true) < 0 then
\* Compare(a, c, true) < 0.
C39_StrictTransitive ==
    (cpc = "done" /\ strictSort /\ cmpResult < 0)
    => \A c \in ExtraVersions :
          Compare(other, c, TRUE) < 0 => Compare(this, c, TRUE) < 0

\* ---------------------------------------------------------------------- C40
\* The step of a DownloadManifest call.
DownloadStep == downloads' = downloads + 1

\* The call downloaded a document and parsed it.
Parsed(info) == info # DownloadFailed /\ ~ParseManifestErr(info)

\* The cache holds, under the key of the manifest of info, a file whose
\* manifest equals that manifest.
CacheHolds(cache, info) ==
    /\ cache[<<info.arn, info.version>>] # NoFile
    /\ ParseManifest(cache[<<info.arn, info.version>>]) = ParseManifest(info)

\* C40: a DownloadManifest call reports isSameAsCache = true exactly when
\* it downloaded and parsed a manifest and the cache held an equal
\* manifest under its (PackageArn, Version); after a successful call the
\* cache holds the downloaded manifest under that key and its other keys
\* are as before; a call that follows a successful one and downloads an
\* equal manifest reports true; a failed download or parse leaves the
\* cache as it was.
C40_SameAsCache ==
    [][ DownloadStep =>
          /\ isSameAsCache' <=>
                (Parsed(byteManifest') /\ CacheHolds(manifestCache, byteManifest'))
          /\ dmErr' = "nil" =>
                /\ Parsed(byteManifest')
                /\ parsedManifest' = ParseManifest(byteManifest')
                /\ manifestCache' =
                      [manifestCache EXCEPT
                         ![<<byteManifest'.arn, byteManifest'.version>>] =
                            byteManifest']
                /\ CacheHolds(manifestCache', byteManifest')
          /\ (dmErr = "nil" /\ downloads > 0 /\ Parsed(byteManifest')
                /\ ParseManifest(byteManifest') = parsedManifest)
             => isSameAsCache'
          /\ ~Parsed(byteManifest') =>
                (dmErr' # "nil" /\ manifestCache' = manifestCache)
      ]_vars

\* C40 witness: the second download of a manifest, laid out differently
\* from the file in the cache, has reported isSameAsCache = true and the
\* cache holds the new file.
C40_Witness ==
    /\ downloads = 2
    /\ dmErr = "nil"
    /\ isSameAsCache
    /\ byteManifest.layout = "indented"
    /\ manifestCache[<<byteManifest.arn, byteManifest.version>>] = byteManifest
    /\ resource["latest"] = parsedManifest

====
